---- MODULE Spec2Model ----
(***************************************************************************)
(* A model of the chat gateway's orchestrator (ChatService): the streaming *)
(* thinking/response classifier of generate_stream, the one-pass thinking  *)
(* extraction of generate_response, the request pipeline around them, the  *)
(* prompt formatting, the POST and WebSocket routes, and the registry of   *)
(* context windows (TokenCounter), call by call and under concurrency.     *)
(*                                                                         *)
(* Text is a sequence of characters.  Every character of a provider stream *)
(* carries the position at which it arrived (field i), so that loss,       *)
(* duplication and reordering of characters are visible; the program only  *)
(* ever looks at the character itself (field c).                           *)
(***************************************************************************)
EXTENDS Integers, Sequences, FiniteSets, TLC

\* ------------------------------------------------------------------ bounds

\* The backend's output is built from at most MaxUnits units (see Units).
MaxUnits == 3
\* The adapter delivers the output in at most MaxFrags fragments.
MaxFrags == 3
\* A non-streaming backend answer is built from at most MaxGenUnits units.
MaxGenUnits == 2
\* A conversation handed to the prompt formatting has at most MaxMsgs messages.
MaxMsgs == 2
\* A client sends at most MaxReqs texts on one WebSocket connection.
MaxReqs == 2
\* The orchestrator's stream of one request yields at most MaxToks tokens.
MaxToks == 2
\* At most MaxRegs context windows are registered in a row.
MaxRegs == 2
\* A concurrent request makes at most MaxPlan registrations.
MaxPlan == 2
\* The local provider reports at most MaxLive models.
MaxLive == 2
\* A context-window request carries at most MaxCtxMsgs messages, and
\* estimate_messages_tokens is called on it at most MaxCalls times.
MaxCtxMsgs == 2
MaxCalls == 2

\* ------------------------------------------------------- program constants

\* The opening marker '<think>'.
OPEN == <<"<", "t", "h", "i", "n", "k", ">">>
\* The closing marker '</think>'.
CLOSE == <<"<", "/", "t", "h", "i", "n", "k", ">">>
\* len(buffered_thinking) > 10: the coalescing threshold.
THINK_FLUSH_LEN == 10
\* Python's None (a text no string of characters equals).
None == <<"None">>
\* ChatRequest.temperature: ge=0.0, le=1.0 and the default 0.7, in tenths.
TEMPERATURE_GE == 0
TEMPERATURE_LE == 10
TEMPERATURE_DEFAULT == 7

\* settings.REASONING_MODELS: the configured reasoning-model name list.
REASONING_MODELS == {<<"r", "1">>}

\* ------------------------------------------------------------ model inputs

\* The pieces a backend output is made of: a blank, a run of six letters (long
\* enough for two of them to pass the coalescing threshold) and the two
\* markers.  Fragments cut the run at any place, so single letters occur too.
LONG == <<"b", "b", "b", "b", "b", "b">>
Units == {<<" ">>, LONG, OPEN, CLOSE}

\* Model ids: one that contains a reasoning-model name in another case (and
\* has a tag after ':'), one that contains none.
ModelIdList == << <<"R", "1", ":", "x">>, <<"r", "x">> >>
ModelIds == {ModelIdList[k] : k \in 1..Len(ModelIdList)}

\* The providers a request may name: the two supported ones and another.
Supported == {"ollama", "huggingface"}
Providers == Supported \cup {"other"}
\* Estimated token counts of a request's messages: small, above 80% of the
\* local default window, above that window.
TokenCounts == {100, 3500, 5000}
\* Context lengths a provider's metadata may report.
Lengths == {2048, 8192}
\* What a get_model_info call may give: an exception (-1), no context length
\* (0), or a context length.
MetaResults == {-1, 0} \cup Lengths

\* The roles and contents of the messages of a conversation.
Roles == {<<"u", "s", "e", "r">>, <<"s", "y", "s", "t", "e", "m">>,
          <<"a", "s", "s", "i", "s", "t", "a", "n", "t">>}
Contents == {<<>>, <<"h", "i">>, <<"o", "k", "\n">>}
Messages == [role : Roles, content : Contents]
\* The system_prompt argument: absent, the empty string, a text.
SystemPrompts == {None, <<>>, <<"b", "e">>}

\* Model ids of the registry: a family name of the static table without a
\* tag, with two tags, and with a suffix after '-'; lookups also ask for a
\* tag and a name never seen.
RegIds == {<<"llama3">>, <<"llama3", ":", "a">>, <<"llama3", ":", "b">>,
           <<"llama3", "-", "a">>}
LookupIds == RegIds \cup {<<"llama3", ":", "c">>, <<"q">>}
\* Context lengths handed to register_context_window: two sizes, and the
\* integers 0 and -1, which it takes like any other.
RegValues == {-1, 0} \cup {4096, 8192}
Registrations == [provider : Supported, mid : RegIds, n : RegValues]
\* The registrations concurrent requests make: one provider, tagged ids of
\* one family, two sizes.
TaskRegistrations ==
    [provider : {"ollama"}, mid : {<<"llama3", ":", "a">>, <<"llama3", ":", "b">>},
     n : Lengths]
\* The concurrent requests.
Tasks == {1, 2}

\* settings.DEFAULT_MODELS: the ids of the local provider's defaults, in order,
\* and of the hosted provider's default.
DEFAULT_OLLAMA_IDS ==
    <<"llama3:latest", "llama3.1:latest", "mistral:latest", "mistral-small:latest",
      "mistral-medium:latest", "mistral-large:latest", "deepseek:latest",
      "deepseek-coder:latest", "phi3:latest", "gemma:latest", "gemma2:latest",
      "codellama:latest">>
DEFAULT_HF_IDS == <<"gpt2">>
\* The hosted adapter's curated list, which it returns as its live list.
CURATED_HF_IDS ==
    <<"gpt2", "facebook/bart-large-cnn", "EleutherAI/gpt-neo-1.3B",
      "EleutherAI/gpt-neo-2.7B", "EleutherAI/gpt-j-6B", "bigscience/bloom-560m",
      "bigscience/bloom-1b7", "bigscience/bloom", "microsoft/phi-2",
      "HuggingFaceH4/zephyr-7b-beta">>
\* Ids the local provider may report: two of the defaults and two others.
LiveOllamaIds == {"llama3:latest", "mistral:latest", "custom:7b", "qwen:14b"}
\* A live list of the local provider: its models, each once, in any order.
LiveOllamaLists ==
    {ids \in UNION {[1..n -> LiveOllamaIds] : n \in 0..MaxLive} :
        \A a, b \in 1..Len(ids) : a # b => ids[a] # ids[b]}
\* A live list of the hosted provider handed to combine_model_lists: the
\* curated list, or none.
LiveHfLists == {<<>>, CURATED_HF_IDS}
\* Requests for the details of a model: the provider, the id, and whether the
\* provider knows a model of that id.
DetailRequests == [provider : Providers, id : {"llama3:latest", "nosuch"}, known : BOOLEAN]

\* Message contents of a context-window request: empty, 'hi', 'a b c d', and
\* the tokenizer's special token '<|endoftext|>', which encode() refuses.
HI == <<"h", "i">>
A_B_C_D == <<"a", " ", "b", " ", "c", " ", "d">>
SPECIAL == <<"<", "|", "e", "n", "d", "o", "f", "t", "e", "x", "t", "|", ">">>
CtxContents == {<<>>, HI, A_B_C_D, SPECIAL}
USER == <<"u", "s", "e", "r">>
SYSTEM == <<"s", "y", "s", "t", "e", "m">>
CtxMessages == [role : {USER, SYSTEM}, content : CtxContents]
CtxMessageLists == UNION {[1..n -> CtxMessages] : n \in 0..MaxCtxMsgs}
\* The model ids of a context-window request.
CtxModelIds == {<<"llama3", ":", "a">>, <<"gpt2">>}
\* The tokenizer encodings, and which of them the tokenizer library can load.
EncodingNames == {"cl100k_base", "gpt2"}
TokenizerStates == {{}, {"cl100k_base"}, EncodingNames}
\* Context windows the provider's metadata may report for the request's model.
CtxWindows == {-1, 16, 20}

\* Temperatures a client may send, in tenths: 0.7 and 1.5.
Temperatures == {TEMPERATURE_DEFAULT, 15}
\* The texts a client may send on the WebSocket: one that is not JSON, and
\* JSON requests for the local provider.
WsTexts ==
    {[json |-> FALSE, temperature |-> TEMPERATURE_DEFAULT, show_thinking |-> TRUE]}
    \cup [json : {TRUE}, temperature : Temperatures, show_thinking : BOOLEAN]
\* What the orchestrator's stream yields for one request: token types, then
\* a normal end or an application exception.
TokenTypes == {"response", "thinking"}
StreamPlans ==
    [todo : UNION {[1..n -> TokenTypes] : n \in 0..MaxToks}, ending : {"done", "error"}]

VARIABLES
    model_id,            \* the request's model id (a character sequence)
    pending,             \* backend output the adapter has not delivered yet
    frags,               \* the raw fragments delivered so far, in order
    in_thinking_mode,    \* generate_stream's local of that name
    buffered_thinking,   \* generate_stream's local of that name
    out,                 \* the tokens generate_stream has yielded, in order
    pc,                  \* "streaming", "done" (generator exhausted), "failed"
    \* one generate_response request and the task _format_messages starts
    g_provider,          \* the request's provider
    g_tokens,            \* estimate_messages_tokens of the request's messages
    registry,            \* TokenCounter._dynamic_context_windows
    initialized,         \* ChatService.context_window_initialized
    g_pc,                \* where generate_response is
    task,                \* the _log_context_window_info task: where it is
    metaCalls,           \* adapter list_models / get_model_info calls made
    genCalls,            \* adapter generate_text calls dispatched
    outcome,             \* what generate_response gave its caller
    g_snap,              \* registry and metaCalls as _format_messages found them,
                         \* and the exception it raised
    g_raw,               \* the text the backend's generate_text returned
    \* one call of generate's prompt formatting
    f_request,           \* provider, system prompt and messages of the call
    f_messages,          \* the local 'messages' (the system message prepended)
    f_result,            \* what _format_messages returned or raised
    f_pc,                \* "idle", "start", "format", "done"
    \* the routes: one POST /chat request and one WebSocket connection
    p_request,           \* the POST request's temperature
    p_chat,              \* the POST request's show_thinking, what
                         \* generate_response returned, and the body returned
    p_result,            \* "pending", "rejected" (validation) or "served"
    a_calls,             \* the requests for which provider adapters were called
    w_pc,                \* chat_stream: "receive", "streaming", "closed"
    w_inbox,             \* texts the client has sent and the server has not read
    w_client,            \* "connected" or "gone"
    w_received,          \* number of texts the server has read
    w_cur,               \* the request being streamed and what is left of it
    w_frames,            \* the frames written to the connected client, in order
    w_gen,               \* the generator of generate_stream
    w_obs,               \* whether the server has observed the disconnect, and
                         \* the pulls and writes it made after that
    \* the registry of context windows, used on its own
    r_log,               \* the register_context_window calls made, in order
    r_result,            \* the last get_provider_context_window call and its result
    c_tasks,             \* the concurrent requests: what each has left to
                         \* register, where it is, the registry as it resumed,
                         \* whether another task registered before it did
    \* the model routes
    m_live,              \* the live lists of the two providers
    m_all,               \* the list combine_model_lists returned
    m_pc,                \* "idle", "start", "done"
    d_request,           \* a request for the details of a model
    d_result,            \* its answer: the status (0: none yet), the descriptor
    \* the token counter and the context-window analysis
    x_request,           \* the request: provider and messages (model_id apart)
    x_tok,               \* the encodings the tokenizer library can load
    x_results,           \* what estimate_messages_tokens returned, call by call
    x_count,             \* the last count_tokens call and its result
    x_analysis,          \* the answer of POST /context-window
    x_check              \* the outcome of the orchestrator's check

streamVars == <<pending, frags, in_thinking_mode, buffered_thinking, out, pc>>
genVars == <<g_provider, g_tokens, registry, initialized, g_pc, task, metaCalls,
             genCalls, outcome, g_snap, g_raw>>
fmtVars == <<f_request, f_messages, f_result, f_pc>>
\* The variables of the other parts of the gateway.
routeVars == <<p_request, p_chat, p_result, a_calls, w_pc, w_inbox, w_client, w_received,
               w_cur, w_frames, w_gen, w_obs>>
regVars == <<r_log, r_result, c_tasks>>
modelVars == <<m_live, m_all, m_pc, d_request, d_result>>
ctxVars == <<x_request, x_tok, x_results, x_count, x_analysis, x_check>>
extVars == <<fmtVars, routeVars, regVars, modelVars, ctxVars>>
\* The variables of a generate_response request, the registry apart.
genCallVars == <<g_provider, g_tokens, initialized, g_pc, task, metaCalls, genCalls,
                 outcome, g_snap, g_raw>>
vars == <<model_id, streamVars, genVars, extVars>>

\* ----------------------------------------------------------------- strings

RECURSIVE Flatten(_)
Flatten(ss) == IF ss = <<>> THEN <<>> ELSE Head(ss) \o Flatten(Tail(ss))

\* A plain string as an arriving text: character k arrives at position k.
MkText(s) == [k \in 1..Len(s) |-> [c |-> s[k], i |-> k]]

\* The characters of a text, positions forgotten.
Chars(t) == [k \in 1..Len(t) |-> t[k].c]
\* The arrival positions of a text's characters.
Positions(t) == [k \in 1..Len(t) |-> t[k].i]

MinOf(S) == CHOOSE x \in S : \A y \in S : x <= y

\* str.find, 1-based: the first index at which marker m starts in s, 0 if none.
FindStr(s, m) ==
    LET hits == {k \in 1..(Len(s) - Len(m) + 1) : SubSeq(s, k, k + Len(m) - 1) = m}
    IN  IF hits = {} THEN 0 ELSE MinOf(hits)

\* 'm in token'
Contains(t, m) == FindStr(Chars(t), m) # 0

\* token.split(m, 1) when m is in token: the parts before and after the first m.
Split1(t, m) ==
    LET k == FindStr(Chars(t), m)
    IN  <<SubSeq(t, 1, k - 1), SubSeq(t, k + Len(m), Len(t))>>

\* str.lower() on the letters model ids use.
LowerChar(ch) == CASE ch = "R" -> "r" [] ch = "X" -> "x" [] OTHER -> ch
Lower(s) == [k \in 1..Len(s) |-> LowerChar(s[k])]

\* ------------------------------------------------------ _is_reasoning_model

\* any(rm.lower() in model_id.lower() for rm in reasoning_models)
IsReasoningModel(mid) ==
    \E rm \in REASONING_MODELS : FindStr(Lower(mid), Lower(rm)) # 0

\* ------------------------------------------------ generate_stream, per token

Resp(t) == [token |-> t, type |-> "response"]
Think(t) == [token |-> t, type |-> "thinking"]

\* The branch "'<think>' in token": the buffer is reset, the part before the
\* marker is yielded as response, the part after it becomes the buffer.
OnOpen(buf, token) ==
    LET parts == Split1(token, OPEN)
    IN  [mode |-> TRUE,
         buf |-> parts[2],
         yields |-> IF parts[1] # <<>> THEN <<Resp(parts[1])>> ELSE <<>>]

\* OnClose with the two yields in the other order (the response part first).
OnClose_ResponseFirst(buf, token) ==
    LET parts == Split1(token, CLOSE)
        b == buf \o parts[1]
    IN  [mode |-> FALSE,
         buf |-> <<>>,
         yields |-> (IF parts[2] # <<>> THEN <<Resp(parts[2])>> ELSE <<>>)
                    \o (IF b # <<>> THEN <<Think(b)>> ELSE <<>>)]

\* The branch "'</think>' in token": buffer plus the part before the marker is
\* yielded as thinking, then the part after it as response.
OnClose(buf, token) ==
    LET parts == Split1(token, CLOSE)
        b == buf \o parts[1]
    IN  [mode |-> FALSE,
         buf |-> <<>>,
         yields |-> (IF b # <<>> THEN <<Think(b)>> ELSE <<>>)
                    \o (IF parts[2] # <<>> THEN <<Resp(parts[2])>> ELSE <<>>)]

\* The branch "in_thinking_mode": coalesce, flush once the buffer is longer
\* than the threshold.
OnThinking(buf, token) ==
    LET b == buf \o token
    IN  IF Len(b) > THINK_FLUSH_LEN
        THEN [mode |-> TRUE, buf |-> <<>>, yields |-> <<Think(b)>>]
        ELSE [mode |-> TRUE, buf |-> b, yields |-> <<>>]

\* "Normal response token".
OnResponse(mode, buf, token) ==
    [mode |-> mode, buf |-> buf, yields |-> <<Resp(token)>>]

\* ProcessToken without the test of is_reasoning_model: every stream is
\* classified.
ProcessToken_NoBypass(reasoning, mode, buf, token) ==
    IF Contains(token, OPEN) THEN OnOpen(buf, token)
    ELSE IF Contains(token, CLOSE) THEN OnClose(buf, token)
    ELSE IF mode THEN OnThinking(buf, token)
    ELSE OnResponse(mode, buf, token)

\* The body of 'async for token in generator' for one token.
ProcessToken(reasoning, mode, buf, token) ==
    IF reasoning
    THEN IF Contains(token, OPEN) THEN OnOpen(buf, token)
         ELSE IF Contains(token, CLOSE) THEN OnClose(buf, token)
         ELSE IF mode THEN OnThinking(buf, token)
         ELSE OnResponse(mode, buf, token)
    ELSE OnResponse(mode, buf, token)

\* After the loop: "Yield any remaining buffered thinking content".
FinalFlush(buf) == IF buf # <<>> THEN <<Think(buf)>> ELSE <<>>

\* ------------------------------------------------- _extract_thinking_content

IsSpace(ch) == ch = " "

\* str.strip()
RECURSIVE LStrip(_)
LStrip(s) == IF s # <<>> /\ IsSpace(Head(s)) THEN LStrip(Tail(s)) ELSE s
RECURSIVE RStrip(_)
RStrip(s) ==
    IF s # <<>> /\ IsSpace(s[Len(s)]) THEN RStrip(SubSeq(s, 1, Len(s) - 1)) ELSE s
Strip(s) == RStrip(LStrip(s))

\* thinking_pattern.search(text): the leftmost match of '<think>(.*?)</think>'
\* (DOTALL, lazy): from the first '<think>' to the first '</think>' after it.
\* [found, start, group, after]: group is group(1), after the text behind it.
SearchThinking(s) ==
    LET i == FindStr(s, OPEN)
        rest == SubSeq(s, i + Len(OPEN), Len(s))
        j == IF i = 0 THEN 0 ELSE FindStr(rest, CLOSE)
    IN  IF j = 0
        THEN [found |-> FALSE, start |-> 0, group |-> <<>>, after |-> <<>>]
        ELSE [found |-> TRUE, start |-> i, group |-> SubSeq(rest, 1, j - 1),
              after |-> SubSeq(rest, j + Len(CLOSE), Len(rest))]

\* thinking_pattern.sub('', text): every non-overlapping match removed.
RECURSIVE SubThinking(_)
SubThinking(s) ==
    LET m == SearchThinking(s)
    IN  IF m.found THEN SubSeq(s, 1, m.start - 1) \o SubThinking(m.after) ELSE s

ExtractThinkingContent(s) ==
    LET m == SearchThinking(s)
    IN  IF m.found
        THEN [response |-> Strip(SubThinking(s)), thinking |-> Strip(m.group)]
        ELSE [response |-> s, thinking |-> None]

\* ------------------------------------------------------------ TokenCounter

\* CONTEXT_WINDOWS, the static table.  A key is a text; a name of the table
\* is one piece of text.
CONTEXT_WINDOWS ==
    (<<"default">> :> 4096) @@ (<<"gpt-3.5-turbo">> :> 4096) @@ (<<"gpt-4">> :> 8192)
    @@ (<<"gpt-4-32k">> :> 32768) @@ (<<"llama2">> :> 4096) @@ (<<"llama3">> :> 8192)
    @@ (<<"mistral">> :> 8192) @@ (<<"mixtral">> :> 32768) @@ (<<"claude">> :> 100000)
    @@ (<<"gpt2">> :> 1024) @@ (<<"huggingface", "/", "default">> :> 2048)
    @@ (<<"ollama", "/", "default">> :> 4096)

\* f"{provider}/{model_id}"
FullId(provider, mid) == <<provider, "/">> \o mid

\* ':' in model_id
HasTag(mid) == FindStr(mid, <<":">>) # 0
\* model_id.split(':')[0]
ModelFamily(mid) == SubSeq(mid, 1, FindStr(mid, <<":">>) - 1)

\* dict.get(key): 0 stands for None (both are falsy where the code tests them).
DictGet(d, k) == IF k \in DOMAIN d THEN d[k] ELSE 0
\* d[key] = value
DictPut(d, k, v) == (k :> v) @@ d

\* register_context_window: the registry after the call.
RegisterContextWindow(reg, provider, mid, n) ==
    LET r1 == DictPut(DictPut(reg, FullId(provider, mid), n), mid, n)
        fam == ModelFamily(mid)
        existing == DictGet(r1, fam)
    IN  IF HasTag(mid) /\ (existing = 0 \/ n < existing)
        THEN DictPut(DictPut(r1, fam, n), FullId(provider, fam), n)
        ELSE r1

\* get_provider_context_window
GetProviderContextWindow(reg, provider, mid) ==
    LET full == FullId(provider, mid)
        fam == ModelFamily(mid)
    IN  IF DictGet(reg, full) # 0 THEN DictGet(reg, full)
        ELSE IF DictGet(reg, mid) # 0 THEN DictGet(reg, mid)
        ELSE IF HasTag(mid) /\ DictGet(reg, fam) # 0 THEN DictGet(reg, fam)
        ELSE IF HasTag(mid) /\ DictGet(reg, FullId(provider, fam)) # 0
             THEN DictGet(reg, FullId(provider, fam))
        ELSE IF full \in DOMAIN CONTEXT_WINDOWS THEN CONTEXT_WINDOWS[full]
        ELSE IF mid \in DOMAIN CONTEXT_WINDOWS THEN CONTEXT_WINDOWS[mid]
        ELSE IF HasTag(mid) /\ fam \in DOMAIN CONTEXT_WINDOWS THEN CONTEXT_WINDOWS[fam]
        ELSE IF FullId(provider, <<"default">>) \in DOMAIN CONTEXT_WINDOWS
             THEN CONTEXT_WINDOWS[FullId(provider, <<"default">>)]
        ELSE CONTEXT_WINDOWS[<<"default">>]

\* -------------------------------------------------- the stream, as actions

\* No prompt is being formatted.
FmtIdle ==
    /\ f_request = None
    /\ f_messages = <<>>
    /\ f_result = None
    /\ f_pc = "idle"

\* What generate_response may return to the POST handler: a response text,
\* with thinking content or none.
GenData == [response : {<<"o", "k">>}, thinking : {None, <<"h", "m">>}]
NoData == [response |-> <<>>, thinking |-> None]

\* No request is at the routes.
RouteIdle ==
    /\ p_request = 0
    /\ p_chat = [show_thinking |-> FALSE, data |-> NoData, body |-> NoData]
    /\ p_result = "idle"
    /\ a_calls = {}
    /\ w_pc = "idle"
    /\ w_inbox = <<>>
    /\ w_client = "none"
    /\ w_received = 0
    /\ w_cur = None
    /\ w_frames = <<>>
    /\ w_gen = "none"
    /\ w_obs = None

\* No get_provider_context_window call has been made.
NoResult == [provider |-> "none", mid |-> <<>>, value |-> 0, at |-> -1]

\* The registry is not exercised on its own.
RegIdle ==
    /\ r_log = <<>>
    /\ r_result = NoResult
    /\ c_tasks = <<>>

\* No request is at the model routes.
ModelsIdle ==
    /\ m_live = None
    /\ m_all = <<>>
    /\ m_pc = "idle"
    /\ d_request = None
    /\ d_result = [status |-> 0, id |-> "", live |-> FALSE]

\* No count_tokens call has been made, no analysis, no check.
NoCount == [text |-> <<>>, model |-> <<>>, failed |-> FALSE, value |-> -2]
NoAnalysis == [status |-> "none", token_count |-> 0, context_window |-> 0]
NoCheck == [outcome |-> "none", token_count |-> 0, context_window |-> 0]

\* No request is at the context-window analysis.
CtxIdle ==
    /\ x_request = None
    /\ x_tok = {}
    /\ x_results = <<>>
    /\ x_count = NoCount
    /\ x_analysis = NoAnalysis
    /\ x_check = NoCheck

\* The other parts of the gateway are at rest.
ExtIdle == FmtIdle /\ RouteIdle /\ RegIdle /\ ModelsIdle /\ CtxIdle

\* No generate_response request is in progress.
GenIdle ==
    /\ g_provider = "ollama"
    /\ g_tokens = 0
    /\ registry = <<>>
    /\ initialized = FALSE
    /\ g_pc = "idle"
    /\ task = "none"
    /\ metaCalls = 0
    /\ genCalls = 0
    /\ outcome = None
    /\ g_snap = None
    /\ g_raw = None

UnitSeqs == UNION {[1..n -> Units] : n \in 0..MaxUnits}

\* The whole backend output of this stream.
RawStream == Flatten(frags) \o pending

Init ==
    /\ model_id \in ModelIds
    /\ \E us \in UnitSeqs : pending = MkText(Flatten(us))
    /\ frags = <<>>
    /\ in_thinking_mode = FALSE
    /\ buffered_thinking = <<>>
    /\ out = <<>>
    /\ pc = "streaming"
    /\ GenIdle
    /\ ExtIdle

\* The adapter's generator yields the next fragment and the loop body runs on
\* it.  The fragment is any non-empty cut of what is left; once nothing is
\* left it is the empty chunk a backend sends with its closing message.
Deliver ==
    /\ pc = "streaming"
    /\ Len(frags) < MaxFrags
    /\ \E k \in (IF pending = <<>> THEN {0} ELSE 1..Len(pending)) :
          /\ (Len(frags) = MaxFrags - 1 => k = Len(pending))
          /\ LET token == SubSeq(pending, 1, k)
                 r == ProcessToken(IsReasoningModel(model_id), in_thinking_mode,
                                   buffered_thinking, token)
             IN  /\ frags' = Append(frags, token)
                 /\ pending' = SubSeq(pending, k + 1, Len(pending))
                 /\ in_thinking_mode' = r.mode
                 /\ buffered_thinking' = r.buf
                 /\ out' = out \o r.yields
    /\ UNCHANGED <<model_id, extVars, pc, genVars>>

\* The adapter's generator is exhausted: the loop ends and the rest of the
\* buffer is flushed.
EndStream ==
    /\ pc = "streaming"
    /\ pending = <<>>
    /\ out' = out \o FinalFlush(buffered_thinking)
    /\ pc' = "done"
    /\ UNCHANGED <<model_id, extVars, pending, frags, in_thinking_mode, buffered_thinking, genVars>>

\* The adapter's generator raises in mid-stream: generate_stream re-raises
\* (or wraps) and yields nothing more.
StreamFails ==
    /\ pc = "streaming"
    /\ pc' = "failed"
    /\ UNCHANGED <<model_id, extVars, pending, frags, in_thinking_mode, buffered_thinking, out,
                   genVars>>

Next == Deliver \/ EndStream \/ StreamFails

Spec == Init /\ [][Next]_vars

\* ------------------------------------- generate_response, one request

\* The stream of generate_stream is not running.
StreamIdle ==
    /\ pending = <<>>
    /\ frags = <<>>
    /\ in_thinking_mode = FALSE
    /\ buffered_thinking = <<>>
    /\ out = <<>>
    /\ pc = "idle"

\* A request arrives at a fresh ChatService (the route builds one per
\* request) in a process whose registry is still empty.
InitGen ==
    /\ model_id \in ModelIds
    /\ g_provider \in Providers
    /\ g_tokens \in TokenCounts
    /\ registry = <<>>
    /\ initialized = FALSE
    /\ g_pc = "start"
    /\ task = "none"
    /\ metaCalls = 0
    /\ genCalls = 0
    /\ outcome = None
    /\ g_snap = None
    /\ g_raw = None
    /\ StreamIdle
    /\ ExtIdle

\* The registrations of _preload_context_window_sizes' loop over the local
\* provider's models: found[id] is the context length get_model_info gave for
\* the k-th and later models of the list, 0 where it gave none or raised.
\* (The hosted provider's curated models have keys of their own; they are
\* left out.)
RECURSIVE PreloadFrom(_, _, _)
PreloadFrom(reg, found, k) ==
    IF k > Len(ModelIdList) THEN reg
    ELSE PreloadFrom(IF found[ModelIdList[k]] # 0
                     THEN RegisterContextWindow(reg, "ollama", ModelIdList[k],
                                                found[ModelIdList[k]])
                     ELSE reg,
                     found, k + 1)

PreloadChoices == [ModelIds -> {0} \cup Lengths]

\* The provider branch of _update_context_window_info: get_model_info gave
\* res; a context length is registered, anything else changes nothing.
UpdateInfo(reg, provider, mid, res) ==
    IF provider \in Supported /\ res \in Lengths
    THEN RegisterContextWindow(reg, provider, mid, res)
    ELSE reg

Ok(resp, th) == [kind |-> "ok", response |-> resp, thinking |-> th]
\* An exception of class kind reaches the caller; cause is the exception that
\* was raised beneath, details the 'details' of the one that reaches the caller.
Failure(kind, cause, details) ==
    [kind |-> kind, response |-> <<>>, thinking |-> None, cause |-> cause,
     details |-> details]

\* The exception classes the except clauses re-raise as they are.
KnownErrors == {"ModelServiceError", "ModelNotFoundError", "ContextLimitExceededError"}

\* The except clauses of generate_response: a known exception is re-raised,
\* any other is wrapped into a ModelServiceError with provider and model_id.
HandleException(exc, provider, mid) ==
    IF exc \in KnownErrors
    THEN Failure(exc, exc, <<>>)
    ELSE Failure("ModelServiceError", exc, <<provider, mid>>)

\* generate_response line 311: the thinking extraction on the backend's text.
GenerateResult(mid, text) ==
    LET r == ExtractThinkingContent(text)
    IN  Ok(r.response, r.thinking)

\* _update_context_window_info, first half: the service is not initialized,
\* so the preload runs; ok is whether it reached "Mark as initialized".
G_Preload ==
    /\ g_pc = "start"
    /\ \E found \in PreloadChoices, ok \in BOOLEAN :
          /\ registry' = PreloadFrom(registry, found, 1)
          /\ initialized' = ok
    /\ metaCalls' = metaCalls + 1
    /\ g_pc' = "update"
    /\ UNCHANGED <<model_id, extVars, streamVars, g_provider, g_tokens, task, genCalls, outcome,
                   g_snap, g_raw>>

\* The second half with no except clause: an exception of get_model_info
\* ends the request.
G_UpdateInfo_Propagate ==
    /\ g_pc = "update"
    /\ \E res \in MetaResults :
          /\ (g_provider \notin Supported => res = 0)
          /\ registry' = UpdateInfo(registry, g_provider, model_id, res)
          /\ IF res = -1
             THEN g_pc' = "done"
                  /\ outcome' = HandleException("ConnectionError", g_provider, model_id)
             ELSE g_pc' = "format" /\ outcome' = outcome
    /\ metaCalls' = IF g_provider \in Supported THEN metaCalls + 1 ELSE metaCalls
    /\ UNCHANGED <<model_id, extVars, streamVars, g_provider, g_tokens, initialized, task, genCalls,
                   g_snap, g_raw>>

\* _update_context_window_info, second half: get_model_info of the request's
\* provider (none for another provider); exceptions are logged and dropped.
G_UpdateInfo ==
    /\ g_pc = "update"
    /\ \E res \in MetaResults :
          /\ (g_provider \notin Supported => res = 0)
          /\ registry' = UpdateInfo(registry, g_provider, model_id, res)
    /\ metaCalls' = IF g_provider \in Supported THEN metaCalls + 1 ELSE metaCalls
    /\ g_pc' = "format"
    /\ UNCHANGED <<model_id, extVars, streamVars, g_provider, g_tokens, initialized, task, genCalls,
                   outcome, g_snap, g_raw>>

\* _format_messages: the _log_context_window_info task is created, then the
\* provider is looked at; another provider raises ValueError, which
\* generate_response wraps into a ModelServiceError.
G_Format ==
    /\ g_pc = "format"
    /\ task' = "scheduled"
    /\ g_snap' = [registry |-> registry, metaCalls |-> metaCalls,
                  error |-> IF g_provider \in Supported THEN "none"
                            ELSE "ValueError: Unsupported provider"]
    /\ IF g_provider \in Supported
       THEN g_pc' = "dispatch" /\ outcome' = outcome
       ELSE g_pc' = "done"
            /\ outcome' = HandleException("ValueError: Unsupported provider",
                                          g_provider, model_id)
    /\ UNCHANGED <<model_id, extVars, streamVars, g_provider, g_tokens, registry, initialized,
                   metaCalls, genCalls, g_raw>>

\* The adapter's generate_text is called.  The hosted adapter's signature is
\* (model_id, prompt, params): the call with temperature= and max_tokens=
\* raises TypeError, wrapped into a ModelServiceError.  The local adapter
\* posts its request and the request waits for the answer.
G_Dispatch ==
    /\ g_pc = "dispatch"
    /\ IF g_provider = "ollama"
       THEN g_pc' = "awaiting" /\ genCalls' = genCalls + 1 /\ outcome' = outcome
       ELSE g_pc' = "done" /\ genCalls' = genCalls
            /\ outcome' = HandleException("TypeError", g_provider, model_id)
    /\ UNCHANGED <<model_id, extVars, streamVars, g_provider, g_tokens, registry, initialized, task,
                   metaCalls, g_snap, g_raw>>

GenUnitSeqs == UNION {[1..n -> Units] : n \in 0..MaxGenUnits}

\* The backend answers: with a text, which goes through the thinking
\* extraction, or with a failure, which the adapter raises as
\* ModelServiceError.
G_Return ==
    /\ g_pc = "awaiting"
    /\ \/ \E us \in GenUnitSeqs :
             /\ g_raw' = Flatten(us)
             /\ outcome' = GenerateResult(model_id, Flatten(us))
       \/ /\ g_raw' = g_raw
          /\ outcome' = HandleException("ModelServiceError", g_provider, model_id)
    /\ g_pc' = "done"
    /\ UNCHANGED <<model_id, extVars, streamVars, g_provider, g_tokens, registry, initialized, task,
                   metaCalls, genCalls, g_snap>>

\* The event loop runs the created task only while generate_response is
\* suspended in the adapter's request or has finished.
TaskMayRun == g_pc \in {"awaiting", "done"}

\* The task starts: _update_context_window_info runs the preload again when
\* the service is not initialized.
B_Start ==
    /\ TaskMayRun
    /\ task = "scheduled"
    /\ IF initialized
       THEN UNCHANGED <<registry, initialized, metaCalls>>
       ELSE /\ \E found \in PreloadChoices, ok \in BOOLEAN :
                  /\ registry' = PreloadFrom(registry, found, 1)
                  /\ initialized' = ok
            /\ metaCalls' = metaCalls + 1
    /\ task' = "update"
    /\ UNCHANGED <<model_id, extVars, streamVars, g_provider, g_tokens, g_pc, genCalls, outcome,
                   g_snap, g_raw>>

\* The task's get_model_info and registration.
B_UpdateInfo ==
    /\ TaskMayRun
    /\ task = "update"
    /\ \E res \in MetaResults :
          /\ (g_provider \notin Supported => res = 0)
          /\ registry' = UpdateInfo(registry, g_provider, model_id, res)
    /\ metaCalls' = IF g_provider \in Supported THEN metaCalls + 1 ELSE metaCalls
    /\ task' = "check"
    /\ UNCHANGED <<model_id, extVars, streamVars, g_provider, g_tokens, initialized, g_pc, genCalls,
                   outcome, g_snap, g_raw>>

\* The check of _log_context_window_info, by its outcome: the task ends with
\* ContextLimitExceededError (which stays in the task: nothing awaits it), or
\* it ends normally, after a warning when usage is above 80%.
CheckResult(reg, provider, mid, tokens) ==
    LET window == GetProviderContextWindow(reg, provider, mid)
    IN  IF tokens > window THEN "raised"
        ELSE IF tokens * 100 > 80 * window THEN "warned"
        ELSE "finished"

B_Check ==
    /\ TaskMayRun
    /\ task = "check"
    /\ task' = CheckResult(registry, g_provider, model_id, g_tokens)
    /\ UNCHANGED <<model_id, extVars, streamVars, g_provider, g_tokens, registry, initialized, g_pc,
                   metaCalls, genCalls, outcome, g_snap, g_raw>>

NextGen ==
    \/ G_Preload \/ G_UpdateInfo \/ G_Format \/ G_Dispatch \/ G_Return
    \/ B_Start \/ B_UpdateInfo \/ B_Check

SpecGen == InitGen /\ [][NextGen]_vars

\* ------------------------------------------------- the prompt formatting

\* The cue 'Assistant: ' that ends every prompt.
ASSISTANT_CUE == <<"A", "s", "s", "i", "s", "t", "a", "n", "t", ":", " ">>

\* str.upper() on the letters roles begin with.
UpperChar(ch) ==
    CASE ch = "u" -> "U" [] ch = "s" -> "S" [] ch = "a" -> "A" [] OTHER -> ch

\* str.capitalize(): the first character in upper case, the rest in lower.
Capitalize(s) == IF s = <<>> THEN <<>> ELSE <<UpperChar(Head(s))>> \o Lower(Tail(s))

\* f"{role.capitalize()}: {content}\n"
FormatLine(message) ==
    Capitalize(message.role) \o <<":", " ">> \o message.content \o <<"\n">>

\* A loop that puts each message's line in front of the text built so far.
RECURSIVE FormatLoop_Prepend(_, _)
FormatLoop_Prepend(text, messages) ==
    IF messages = <<>> THEN text
    ELSE FormatLoop_Prepend(FormatLine(Head(messages)) \o text, Tail(messages))

\* for message in messages: formatted_text += ...
RECURSIVE FormatLoop(_, _)
FormatLoop(text, messages) ==
    IF messages = <<>> THEN text
    ELSE FormatLoop(text \o FormatLine(Head(messages)), Tail(messages))

\* _format_messages: the task of the context check is created, then the
\* provider's branch builds the prompt; another provider raises ValueError.
FormatMessages(provider, messages) ==
    IF provider \in Supported
    THEN [text |-> FormatLoop(<<>>, messages) \o ASSISTANT_CUE, error |-> "none",
          task |-> "scheduled"]
    ELSE [text |-> None, error |-> "ValueError: Unsupported provider",
          task |-> "scheduled"]

\* 'if system_prompt:'
Truthy(text) == text # None /\ text # <<>>

\* A generate call is about to format its prompt.
InitFmt ==
    /\ model_id = ModelIdList[1]
    /\ \E p \in Providers, sp \in SystemPrompts, n \in 0..MaxMsgs :
          \E ms \in [1..n -> Messages] :
             f_request = [provider |-> p, system |-> sp, messages |-> ms]
    /\ f_messages = <<>>
    /\ f_result = None
    /\ f_pc = "start"
    /\ StreamIdle
    /\ GenIdle
    /\ RouteIdle
    /\ RegIdle
    /\ ModelsIdle
    /\ CtxIdle

\* generate_response / generate_stream: the system message is put in front.
F_AddSystem ==
    /\ f_pc = "start"
    /\ f_messages' = IF Truthy(f_request.system)
                     THEN <<[role |-> <<"s", "y", "s", "t", "e", "m">>,
                             content |-> f_request.system]>> \o f_request.messages
                     ELSE f_request.messages
    /\ f_pc' = "format"
    /\ UNCHANGED <<model_id, modelVars, ctxVars, streamVars, genVars, routeVars, regVars, f_request, f_result>>

\* The call of _format_messages.
F_Format ==
    /\ f_pc = "format"
    /\ f_result' = FormatMessages(f_request.provider, f_messages)
    /\ f_pc' = "done"
    /\ UNCHANGED <<model_id, modelVars, ctxVars, streamVars, genVars, routeVars, regVars, f_request, f_messages>>

NextFmt == F_AddSystem \/ F_Format

SpecFmt == InitFmt /\ [][NextFmt]_vars

\* --------------------------------------------------------------- the routes

\* ChatRequest's validation of temperature: Field(0.7, ge=0.0, le=1.0).
ValidTemperature(t) == TEMPERATURE_GE <= t /\ t <= TEMPERATURE_LE

\* The frames; pos is the place of the token in the orchestrator's stream.
TokenFrame(req, type, pos) == [req |-> req, kind |-> "token", type |-> type, pos |-> pos]
DoneFrame(req) == [req |-> req, kind |-> "done", type |-> "none", pos |-> 0]
ErrorFrame(req) == [req |-> req, kind |-> "error", type |-> "none", pos |-> 0]

\* A POST /chat request and a WebSocket connection on which the client has
\* sent some texts.
InitRoute ==
    /\ model_id = ModelIdList[1]
    /\ p_request \in Temperatures
    /\ \E show \in BOOLEAN : p_chat = [show_thinking |-> show, data |-> NoData, body |-> NoData]
    /\ p_result = "pending"
    /\ a_calls = {}
    /\ w_pc = "receive"
    /\ \E n \in 0..MaxReqs : w_inbox \in [1..n -> WsTexts]
    /\ w_client = "connected"
    /\ w_received = 0
    /\ w_cur = None
    /\ w_frames = <<>>
    /\ w_gen = "none"
    /\ w_obs = [observed |-> FALSE, pulls |-> 0, writes |-> 0]
    /\ StreamIdle
    /\ GenIdle
    /\ FmtIdle
    /\ RegIdle
    /\ ModelsIdle
    /\ CtxIdle

\* The body POST /chat returns.
ChatResponse(data, show_thinking) ==
    [response |-> data.response,
     thinking |-> IF show_thinking THEN data.thinking ELSE None]

\* POST /chat: the body is validated as a ChatRequest before the handler
\* runs; the handler calls generate_response, which calls the adapters.
P_Chat ==
    /\ p_result = "pending"
    /\ IF ValidTemperature(p_request)
       THEN /\ p_result' = "served"
            /\ a_calls' = a_calls \cup {[path |-> "post", temperature |-> p_request]}
            /\ \E data \in GenData :
                  p_chat' = [p_chat EXCEPT !.data = data,
                                          !.body = ChatResponse(data, p_chat.show_thinking)]
       ELSE /\ p_result' = "rejected"
            /\ a_calls' = a_calls
            /\ p_chat' = p_chat
    /\ UNCHANGED <<model_id, modelVars, ctxVars, streamVars, genVars, fmtVars, regVars, p_request, w_pc, w_inbox,
                   w_client, w_received, w_cur, w_frames, w_gen, w_obs>>

\* chat_stream reads the next text.  json.loads on a text that is not JSON
\* raises JSONDecodeError outside the inner try: the handler logs it and
\* returns.  Otherwise the fields are read from the dict as they are and
\* generate_stream is called with them.
W_Receive ==
    /\ w_pc = "receive"
    /\ w_inbox # <<>>
    /\ w_inbox' = Tail(w_inbox)
    /\ w_received' = w_received + 1
    /\ IF Head(w_inbox).json
       THEN /\ w_pc' = "streaming"
            /\ w_gen' = "created"
            /\ \E plan \in StreamPlans :
                  w_cur' = [temperature |-> Head(w_inbox).temperature,
                            show_thinking |-> Head(w_inbox).show_thinking,
                            req |-> w_received + 1, plan |-> plan.todo,
                            todo |-> plan.todo, ending |-> plan.ending]
       ELSE /\ w_pc' = "closed"
            /\ UNCHANGED <<w_gen, w_cur>>
    /\ UNCHANGED <<model_id, modelVars, ctxVars, streamVars, genVars, fmtVars, regVars, p_request, p_chat, p_result, a_calls,
                   w_client, w_frames, w_obs>>

\* receive_text with nothing left to read from a client that is gone raises
\* WebSocketDisconnect: the handler returns.
W_ReceiveDisconnect ==
    /\ w_pc = "receive"
    /\ w_inbox = <<>>
    /\ w_client = "gone"
    /\ w_pc' = "closed"
    /\ w_obs' = [w_obs EXCEPT !.observed = TRUE]
    /\ UNCHANGED <<model_id, modelVars, ctxVars, streamVars, genVars, fmtVars, regVars, p_request, p_chat, p_result, a_calls,
                   w_inbox, w_client, w_received, w_cur, w_frames, w_gen>>

\* The place in the stream of the item being pulled.
NextPos == Len(w_cur.plan) - Len(w_cur.todo) + 1

\* NextFrame without the test of show_thinking.
NextFrame_ShowAll ==
    IF w_cur.todo # <<>>
    THEN <<TokenFrame(w_received, Head(w_cur.todo), NextPos)>>
    ELSE IF w_cur.ending = "done" THEN <<DoneFrame(w_received)>>
    ELSE <<ErrorFrame(w_received)>>

\* What the next item of the stream makes the handler write: nothing for a
\* thinking token that is not shown, else a frame.
NextFrame ==
    IF w_cur.todo # <<>>
    THEN IF Head(w_cur.todo) = "thinking" /\ ~w_cur.show_thinking
         THEN <<>>
         ELSE <<TokenFrame(w_received, Head(w_cur.todo), NextPos)>>
    ELSE IF w_cur.ending = "done" THEN <<DoneFrame(w_received)>>
    ELSE <<ErrorFrame(w_received)>>

\* The handler after the item: in the loop, or back at receive_text.
AfterItem ==
    /\ w_pc' = IF w_cur.todo # <<>> THEN "streaming" ELSE "receive"
    /\ w_gen' = IF w_cur.todo # <<>> THEN "open" ELSE "exhausted"
    /\ w_cur' = IF w_cur.todo # <<>> THEN [w_cur EXCEPT !.todo = Tail(@)] ELSE w_cur

\* One turn of 'async for token_data in generate_stream(...)': the next item
\* is pulled and its frame is written.  The first pull runs generate_stream
\* up to its first yield, which calls the adapters.  A write to a client
\* that is gone is dropped silently or raises, depending on the server; when
\* the write of a token or of the completion signal raises, 'except
\* Exception' writes an error frame, which raises again and ends the handler
\* with the generator left where it is.
W_Pull ==
    /\ w_pc = "streaming"
    /\ a_calls' = a_calls \cup {[path |-> "ws", temperature |-> w_cur.temperature]}
    /\ \/ /\ NextFrame = <<>> \/ w_client = "connected"
          /\ w_frames' = w_frames \o NextFrame
          /\ w_obs' = [w_obs EXCEPT !.pulls = IF w_obs.observed THEN @ + 1 ELSE @]
          /\ AfterItem
       \/ /\ NextFrame # <<>> /\ w_client = "gone"
          /\ w_frames' = w_frames
          /\ w_obs' = w_obs
          /\ AfterItem
       \/ /\ NextFrame # <<>> /\ w_client = "gone"
          /\ w_frames' = w_frames
          /\ w_obs' = [w_obs EXCEPT !.observed = TRUE,
                                    !.writes = IF NextFrame[1].kind = "error"
                                               THEN @ ELSE @ + 1]
          /\ w_pc' = "closed"
          /\ w_gen' = IF w_cur.todo # <<>> THEN "abandoned" ELSE "exhausted"
          /\ w_cur' = w_cur
    /\ UNCHANGED <<model_id, modelVars, ctxVars, streamVars, genVars, fmtVars, regVars, p_request, p_chat, p_result, w_inbox,
                   w_client, w_received>>

\* The abandoned generator is finalized by the garbage collector, which
\* closes it.
W_Finalize ==
    /\ w_gen = "abandoned"
    /\ w_gen' = "closed"
    /\ UNCHANGED <<model_id, modelVars, ctxVars, streamVars, genVars, fmtVars, regVars, p_request, p_chat, p_result, a_calls,
                   w_pc, w_inbox, w_client, w_received, w_cur, w_frames, w_obs>>

\* The client goes away.
C_Disconnect ==
    /\ w_client = "connected"
    /\ w_pc # "closed"
    /\ w_client' = "gone"
    /\ UNCHANGED <<model_id, modelVars, ctxVars, streamVars, genVars, fmtVars, regVars, p_request, p_chat, p_result, a_calls,
                   w_pc, w_inbox, w_received, w_cur, w_frames, w_gen, w_obs>>

NextRoute ==
    P_Chat \/ W_Receive \/ W_ReceiveDisconnect \/ W_Pull \/ W_Finalize \/ C_Disconnect

SpecRoute == InitRoute /\ [][NextRoute]_vars

\* ------------------------------------------- the registry, call by call

\* The registry is empty, as when the process starts; calls follow.
InitReg ==
    /\ model_id = ModelIdList[1]
    /\ r_log = <<>>
    /\ r_result = NoResult
    /\ c_tasks = <<>>
    /\ StreamIdle
    /\ GenIdle
    /\ FmtIdle
    /\ RouteIdle
    /\ ModelsIdle
    /\ CtxIdle

\* A call of register_context_window.
R_Register ==
    /\ Len(r_log) < MaxRegs
    /\ \E r \in Registrations :
          /\ registry' = RegisterContextWindow(registry, r.provider, r.mid, r.n)
          /\ r_log' = Append(r_log, r)
    /\ UNCHANGED <<model_id, modelVars, ctxVars, streamVars, genCallVars, fmtVars, routeVars, r_result,
                   c_tasks>>

\* A call of get_provider_context_window.
R_Lookup ==
    /\ \E p \in Providers, mid \in LookupIds :
          r_result' = [provider |-> p, mid |-> mid,
                       value |-> GetProviderContextWindow(registry, p, mid),
                       at |-> Len(r_log)]
    /\ UNCHANGED <<model_id, modelVars, ctxVars, streamVars, genVars, fmtVars, routeVars, r_log, c_tasks>>

NextReg == R_Register \/ R_Lookup

SpecReg == InitReg /\ [][NextReg]_vars

\* ----------------------------------------- the registry, concurrent requests

\* The registry a register_context_window call works on is the one of the
\* moment the task last resumed from an await.
RegistryRead_AtAwait(t) == c_tasks[t].seen

\* The registry a register_context_window call reads and writes: the class
\* attribute as it is during the call, which has no await in it.
RegistryRead(t) == registry

TaskPlans == UNION {[1..n -> TaskRegistrations] : n \in 1..MaxPlan}

\* Requests run as tasks of one event loop; each is about to await the
\* metadata of the first model whose context window it will register.
InitConc ==
    /\ model_id = ModelIdList[1]
    /\ r_log = <<>>
    /\ r_result = NoResult
    /\ c_tasks \in [Tasks -> [todo : TaskPlans, pc : {"await"}, seen : {<<>>},
                              raced : {FALSE}]]
    /\ StreamIdle
    /\ GenIdle
    /\ FmtIdle
    /\ RouteIdle
    /\ ModelsIdle
    /\ CtxIdle

\* 'await get_model_info(...)' of task t returns: the task had been
\* suspended, other tasks may have run meanwhile, and it resumes.
T_Resume(t) ==
    /\ c_tasks[t].pc = "await"
    /\ c_tasks' = [c_tasks EXCEPT ![t].pc = "register", ![t].seen = registry]
    /\ UNCHANGED <<model_id, modelVars, ctxVars, streamVars, genVars, fmtVars, routeVars, r_log, r_result>>

\* Task t calls register_context_window, then goes on to its next await or
\* is through.
T_Register(t) ==
    /\ c_tasks[t].pc = "register"
    /\ LET r == Head(c_tasks[t].todo)
       IN  /\ registry' = RegisterContextWindow(RegistryRead(t), r.provider, r.mid, r.n)
           /\ r_log' = Append(r_log, r)
    /\ c_tasks' = [c_tasks EXCEPT ![t].todo = Tail(@),
                                  ![t].raced = @ \/ c_tasks[t].seen # registry,
                                  ![t].pc = IF Len(c_tasks[t].todo) > 1
                                            THEN "await" ELSE "done"]
    /\ UNCHANGED <<model_id, modelVars, ctxVars, streamVars, genCallVars, fmtVars, routeVars, r_result>>

NextConc == \E t \in Tasks : T_Resume(t) \/ T_Register(t)

SpecConc == InitConc /\ [][NextConc]_vars

\* ---------------------------------------------------------- the model routes

\* A model a provider reports, and the entry built from a default.
LiveModel(provider, id) == [provider |-> provider, id |-> id, live |-> TRUE]
StubModel(provider, id) == [provider |-> provider, id |-> id, live |-> FALSE]
LiveModels(provider, ids) == [k \in 1..Len(ids) |-> LiveModel(provider, ids[k])]

\* The map's entry stays after its model was used.
MapDelete_Keep(map, id) == map

\* del ollama_model_map[model_id]
MapDelete(map, id) == [k \in DOMAIN map \ {id} |-> map[k]]

\* {model.id: model for model in ollama_models}
ModelMap(models) ==
    [id \in {models[k].id : k \in 1..Len(models)} |->
        models[CHOOSE k \in 1..Len(models) :
                  models[k].id = id /\ \A j \in (k + 1)..Len(models) : models[j].id # id]]

\* ollama_model_map.values(): the entries left, in the order of insertion.
MapValues(map, models) ==
    LET first == SelectSeq([k \in 1..Len(models) |-> k],
                           LAMBDA k : /\ models[k].id \in DOMAIN map
                                      /\ \A j \in 1..(k - 1) : models[j].id # models[k].id)
    IN  [n \in 1..Len(first) |-> map[models[first[n]].id]]

\* The loop over the local provider's defaults: the live model when the map
\* has the id (and the map loses it), else a stub.
RECURSIVE DefaultsLoop(_, _, _)
DefaultsLoop(all, map, defaults) ==
    IF defaults = <<>> THEN [all |-> all, map |-> map]
    ELSE IF Head(defaults) \in DOMAIN map
    THEN DefaultsLoop(Append(all, map[Head(defaults)]),
                      MapDelete(map, Head(defaults)), Tail(defaults))
    ELSE DefaultsLoop(Append(all, StubModel("ollama", Head(defaults))), map,
                      Tail(defaults))

\* combine_model_lists
CombineModelLists(hf_models, ollama_models) ==
    LET r == DefaultsLoop(hf_models, ModelMap(ollama_models), DEFAULT_OLLAMA_IDS)
    IN  r.all \o MapValues(r.map, ollama_models)

\* get_model_details: the status and what is returned.  The local adapter's
\* get_model_info takes an empty metadata answer for a model it does not
\* know and fills in defaults; the hosted one builds the descriptor from the
\* id alone.  Neither returns nothing.
GetModelDetails(req) ==
    IF req.provider \notin {"huggingface", "ollama"}
    THEN [status |-> 400, id |-> "", live |-> FALSE]
    ELSE [status |-> 200, id |-> req.id, live |-> req.known]

\* The live lists have been fetched, and a request for details has come in.
InitModels ==
    /\ model_id = ModelIdList[1]
    /\ \E hf \in LiveHfLists, ol \in LiveOllamaLists :
          m_live = [hf |-> LiveModels("huggingface", hf), ollama |-> LiveModels("ollama", ol)]
    /\ m_all = <<>>
    /\ m_pc = "start"
    /\ d_request \in DetailRequests
    /\ d_result = [status |-> 0, id |-> "", live |-> FALSE]
    /\ StreamIdle
    /\ GenIdle
    /\ FmtIdle
    /\ RouteIdle
    /\ RegIdle
    /\ CtxIdle

\* The two live lists are combined.
M_Combine ==
    /\ m_pc = "start"
    /\ m_all' = CombineModelLists(m_live.hf, m_live.ollama)
    /\ m_pc' = "done"
    /\ UNCHANGED <<model_id, streamVars, genVars, fmtVars, routeVars, regVars, ctxVars, m_live,
                   d_request, d_result>>

\* GET /models/{provider}/{model_id}
D_Details ==
    /\ d_result.status = 0
    /\ d_result' = GetModelDetails(d_request)
    /\ UNCHANGED <<model_id, streamVars, genVars, fmtVars, routeVars, regVars, ctxVars, m_live,
                   m_all, m_pc, d_request>>

NextModels == M_Combine \/ D_Details

SpecModels == InitModels /\ [][NextModels]_vars

\* ------------------------------ the token counter and the window analysis

\* TokenCounter.ENCODINGS
ENCODINGS ==
    (<<"gpt-3.5-turbo">> :> "cl100k_base") @@ (<<"gpt-4">> :> "cl100k_base")
    @@ (<<"llama2">> :> "cl100k_base") @@ (<<"llama3">> :> "cl100k_base")
    @@ (<<"mistral">> :> "cl100k_base") @@ (<<"mixtral">> :> "cl100k_base")
    @@ (<<"claude">> :> "cl100k_base") @@ (<<"gpt2">> :> "gpt2")
    @@ (<<"default">> :> "cl100k_base")

\* The family names get_encoding looks for in the base model name, in order.
ENCODING_FAMILIES ==
    << <<"llama2">>, <<"llama3">>, <<"mistral">>, <<"mixtral">>, <<"claude">>, <<"gpt2">> >>

\* The encoding name get_encoding chooses for a model (ids are in lower case).
EncodingName(model) ==
    LET base == IF HasTag(model) THEN ModelFamily(model) ELSE model
        hits == {k \in 1..Len(ENCODING_FAMILIES) : FindStr(base, ENCODING_FAMILIES[k]) # 0}
    IN  IF hits # {}
        THEN ENCODINGS[ENCODING_FAMILIES[CHOOSE k \in hits : \A j \in hits : k <= j]]
        ELSE IF model \in DOMAIN ENCODINGS THEN ENCODINGS[model]
        ELSE ENCODINGS[<<"default">>]

\* get_encoding: the encoding loaded, the default one when the chosen one
\* cannot be loaded, or "raise" when that cannot be loaded either.
GetEncoding(avail, model) ==
    IF EncodingName(model) \in avail THEN EncodingName(model)
    ELSE IF ENCODINGS[<<"default">>] \in avail THEN ENCODINGS[<<"default">>]
    ELSE "raise"

\* len(encoding.encode(text)) for the contents of the requests: 'hi' is one
\* token and 'a b c d' four in both encodings; a text with a special token
\* makes encode() raise (-1).
EncodedLength(encoding, text) ==
    IF FindStr(text, SPECIAL) # 0 THEN -1
    ELSE IF text = HI THEN 1
    ELSE IF text = A_B_C_D THEN 4
    ELSE Len(text)

\* The heuristic without its floor of one token.
ApproximateTokenCount_NoFloor(text) == Len(text) \div 4

\* _approximate_token_count
ApproximateTokenCount(text) ==
    IF Len(text) \div 4 > 1 THEN Len(text) \div 4 ELSE 1

\* Whether count_tokens reaches its except branch.
CountFails(avail, text, model) ==
    /\ text # <<>>
    /\ \/ GetEncoding(avail, model) = "raise"
       \/ EncodedLength(GetEncoding(avail, model), text) = -1

\* count_tokens
CountTokens(avail, text, model) ==
    IF text = <<>> THEN 0
    ELSE IF CountFails(avail, text, model) THEN ApproximateTokenCount(text)
    ELSE EncodedLength(GetEncoding(avail, model), text)

ROLE_OVERHEAD == 4
FORMAT_OVERHEAD == 3
SYSTEM_OVERHEAD == 10

\* The overhead added when no message has role 'system'; here, always.
SystemOverhead_Always(messages) == SYSTEM_OVERHEAD

\* if not any(msg.get("role") == "system" ...): format_overhead += 10
SystemOverhead(messages) ==
    IF \E k \in 1..Len(messages) : messages[k].role = SYSTEM THEN 0 ELSE SYSTEM_OVERHEAD

\* The loop of estimate_messages_tokens: content tokens plus role overhead.
RECURSIVE TotalTokens(_, _, _)
TotalTokens(avail, messages, model) ==
    IF messages = <<>> THEN 0
    ELSE CountTokens(avail, Head(messages).content, model) + ROLE_OVERHEAD
         + TotalTokens(avail, Tail(messages), model)

\* estimate_messages_tokens
EstimateMessagesTokens(avail, messages, provider, mid) ==
    LET model == IF provider = "huggingface" THEN <<"gpt2">> ELSE mid
    IN  IF messages = <<>> THEN 0
        ELSE TotalTokens(avail, messages, model)
             + (Len(messages) * FORMAT_OVERHEAD + SystemOverhead(messages))

\* analyze_context_window: the status, with the counts it is computed from;
\* an unsupported provider is refused.
AnalyzeContextWindow(avail, reg, provider, mid, messages) ==
    LET token_count == EstimateMessagesTokens(avail, messages, provider, mid)
        context_window == GetProviderContextWindow(reg, provider, mid)
    IN  IF provider \notin Supported
        THEN [status |-> "ValidationError", token_count |-> 0, context_window |-> 0]
        ELSE [status |-> IF context_window > 0 /\ token_count * 100 > 80 * context_window
                         THEN "warning" ELSE "ok",
              token_count |-> token_count, context_window |-> context_window]

\* A request has come in; the process has an empty registry and the
\* tokenizer library can load some of its encodings.
InitCtx ==
    /\ model_id \in CtxModelIds
    /\ x_request \in [provider : Providers, messages : CtxMessageLists]
    /\ x_tok \in TokenizerStates
    /\ x_results = <<>>
    /\ x_count = NoCount
    /\ x_analysis = NoAnalysis
    /\ x_check = NoCheck
    /\ StreamIdle
    /\ GenIdle
    /\ FmtIdle
    /\ RouteIdle
    /\ RegIdle
    /\ ModelsIdle

\* _update_context_window_info learns the window of the request's model and
\* registers it.
X_Register ==
    /\ x_request.provider \in Supported
    /\ registry = <<>>
    /\ \E n \in CtxWindows :
          /\ RegisterContextWindow(registry, x_request.provider, model_id, n) # registry
          /\ registry' = RegisterContextWindow(registry, x_request.provider, model_id, n)
    /\ UNCHANGED <<model_id, streamVars, genCallVars, fmtVars, routeVars, regVars, modelVars,
                   ctxVars>>

\* A call of estimate_messages_tokens with the request's arguments.
X_Estimate ==
    /\ Len(x_results) < MaxCalls
    /\ x_results' = Append(x_results,
                           EstimateMessagesTokens(x_tok, x_request.messages,
                                                  x_request.provider, model_id))
    /\ UNCHANGED <<model_id, streamVars, genVars, fmtVars, routeVars, regVars, modelVars,
                   x_request, x_tok, x_count, x_analysis, x_check>>

\* A call of count_tokens on the content of one of the request's messages.
X_Count ==
    /\ \E k \in 1..Len(x_request.messages) :
          x_count' = [text |-> x_request.messages[k].content, model |-> model_id,
                      failed |-> CountFails(x_tok, x_request.messages[k].content, model_id),
                      value |-> CountTokens(x_tok, x_request.messages[k].content, model_id)]
    /\ UNCHANGED <<model_id, streamVars, genVars, fmtVars, routeVars, regVars, modelVars,
                   x_request, x_tok, x_results, x_analysis, x_check>>

\* POST /context-window
X_Analyze ==
    /\ x_analysis' = AnalyzeContextWindow(x_tok, registry, x_request.provider, model_id,
                                          x_request.messages)
    /\ UNCHANGED <<model_id, streamVars, genVars, fmtVars, routeVars, regVars, modelVars,
                   x_request, x_tok, x_results, x_count, x_check>>

\* The check of _log_context_window_info, after its update of the registry.
X_Check ==
    /\ LET token_count == EstimateMessagesTokens(x_tok, x_request.messages,
                                                 x_request.provider, model_id)
       IN  x_check' = [outcome |-> CheckResult(registry, x_request.provider, model_id,
                                               token_count),
                       token_count |-> token_count,
                       context_window |-> GetProviderContextWindow(registry,
                                              x_request.provider, model_id)]
    /\ UNCHANGED <<model_id, streamVars, genVars, fmtVars, routeVars, regVars, modelVars,
                   x_request, x_tok, x_results, x_count, x_analysis>>

\* The token counter, call by call.
NextTok == X_Register \/ X_Estimate \/ X_Count

SpecTok == InitCtx /\ [][NextTok]_vars

\* The analysis route and the orchestrator's check.
NextCtx == X_Register \/ X_Analyze \/ X_Check

SpecCtx == InitCtx /\ [][NextCtx]_vars

\* ------------------------------------------- what the stream claims speak of

Reasoning == IsReasoningModel(model_id)

\* The text yielded on one channel, in emission order.
RECURSIVE ChannelText(_, _)
ChannelText(tokens, type) ==
    IF tokens = <<>> THEN <<>>
    ELSE (IF Head(tokens).type = type THEN Head(tokens).token ELSE <<>>)
         \o ChannelText(Tail(tokens), type)

\* The text yielded on both channels, in emission order.
AllText(tokens) == Flatten([k \in 1..Len(tokens) |-> tokens[k].token])

\* A text with every marker occurrence deleted, scanning from the left.
RECURSIVE DeleteMarkers(_)
DeleteMarkers(t) ==
    LET i == FindStr(Chars(t), OPEN)
        j == FindStr(Chars(t), CLOSE)
    IN  IF i = 0 /\ j = 0 THEN t
        ELSE IF j = 0 \/ (i # 0 /\ i < j)
        THEN SubSeq(t, 1, i - 1) \o DeleteMarkers(SubSeq(t, i + Len(OPEN), Len(t)))
        ELSE SubSeq(t, 1, j - 1) \o DeleteMarkers(SubSeq(t, j + Len(CLOSE), Len(t)))

\* The reference reading of a text with well-formed spans: ok says whether the
\* markers alternate <think>, </think>, ... and end closed; resp is the text
\* outside the spans, think the text inside them.
RECURSIVE RefParse(_, _)
RefParse(t, inside) ==
    LET i == FindStr(Chars(t), OPEN)
        j == FindStr(Chars(t), CLOSE)
        bad == [ok |-> FALSE, resp |-> <<>>, think |-> <<>>]
    IN  IF ~inside
        THEN IF i = 0 THEN [ok |-> j = 0, resp |-> t, think |-> <<>>]
             ELSE IF j # 0 /\ j < i THEN bad
             ELSE LET r == RefParse(SubSeq(t, i + Len(OPEN), Len(t)), TRUE)
                  IN  [ok |-> r.ok, resp |-> SubSeq(t, 1, i - 1) \o r.resp,
                       think |-> r.think]
        ELSE IF j = 0 THEN bad
             ELSE IF i # 0 /\ i < j THEN bad
             ELSE LET r == RefParse(SubSeq(t, j + Len(CLOSE), Len(t)), FALSE)
                  IN  [ok |-> r.ok, resp |-> r.resp,
                       think |-> SubSeq(t, 1, j - 1) \o r.think]

\* generate_stream run on the whole text as a single fragment.
ClassifyWhole(t) ==
    LET r == ProcessToken(TRUE, FALSE, <<>>, t)
    IN  r.yields \o FinalFlush(r.buf)

StrictlyIncreasing(ps) == \A a, b \in 1..Len(ps) : a < b => ps[a] < ps[b]

\* The fragments (by index) from which a token's characters came.
FragsOf(tok) ==
    {f \in 1..Len(frags) : \E a \in 1..Len(frags[f]), b \in 1..Len(tok) :
                               frags[f][a].i = tok[b].i}

\* ------------------------------------------------------------------ claims

\* C1: round trip.  For a reasoning model and a stream whose text has only
\* well-formed <think>...</think> spans, when the stream has ended the
\* response channel holds the text outside the spans and the thinking channel
\* the text inside them, however the text was cut into fragments.
C1_RoundTrip ==
    (pc = "done" /\ Reasoning /\ RefParse(RawStream, FALSE).ok) =>
        /\ Chars(ChannelText(out, "response")) = Chars(RefParse(RawStream, FALSE).resp)
        /\ Chars(ChannelText(out, "thinking")) = Chars(RefParse(RawStream, FALSE).think)

\* C2: boundary-spanning markers.  For a reasoning model, when the stream has
\* ended both channels hold the same text as they do when the whole input is
\* fed as one fragment.
C2_SameAsWhole ==
    (pc = "done" /\ Reasoning) =>
        /\ Chars(ChannelText(out, "response"))
             = Chars(ChannelText(ClassifyWhole(RawStream), "response"))
        /\ Chars(ChannelText(out, "thinking"))
             = Chars(ChannelText(ClassifyWhole(RawStream), "thinking"))

\* C3: lossless re-partitioning.  For a reasoning model, when the stream has
\* ended the yielded tokens, concatenated in emission order, are the raw
\* stream with the marker texts deleted (same characters, same arrival
\* positions), and no yielded token contains a marker.
C3_Lossless ==
    (pc = "done" /\ Reasoning) =>
        /\ AllText(out) = DeleteMarkers(RawStream)
        /\ \A k \in 1..Len(out) :
              ~Contains(out[k].token, OPEN) /\ ~Contains(out[k].token, CLOSE)

\* C4: unterminated marker.  For a reasoning model, when the stream contains
\* <think> and no </think> and has ended, every character that arrived after
\* the first opening marker (marker texts aside) has been yielded on the
\* thinking channel and none of them on the response channel.
C4_UnterminatedFlushed ==
    (pc = "done" /\ Reasoning /\ Contains(RawStream, OPEN) /\ ~Contains(RawStream, CLOSE)) =>
        LET after == DeleteMarkers(Split1(RawStream, OPEN)[2])
            want == {after[k].i : k \in 1..Len(after)}
            th == ChannelText(out, "thinking")
            re == ChannelText(out, "response")
        IN  /\ want \subseteq {th[k].i : k \in 1..Len(th)}
            /\ want \cap {re[k].i : k \in 1..Len(re)} = {}

\* C5: emission order is arrival order.  At every moment of a stream the
\* characters yielded so far, read across both channels in emission order,
\* are in strictly increasing order of arrival: no character overtakes one
\* that arrived before it.
C5_EmissionOrder == StrictlyIncreasing(Positions(AllText(out)))

\* C5's case: a thinking token coalesced from several fragments has been
\* yielded and a response token follows it.
C5_Witness ==
    /\ pc = "done"
    /\ \E k \in 1..(Len(out) - 1) :
          /\ out[k].type = "thinking"
          /\ out[k + 1].type = "response"
          /\ Cardinality(FragsOf(out[k].token)) >= 2

\* C6: bypass for non-reasoning models.  When the model id matches no
\* reasoning-model name, the yielded tokens are exactly the raw fragments, one
\* response token per fragment, text unchanged, and no thinking token.
C6_Bypass ==
    ~Reasoning => out = [k \in 1..Len(frags) |-> Resp(frags[k])]

\* C6's case: a non-reasoning stream has ended after several fragments, among
\* them one with an opening and one with a closing marker.
C6_Witness ==
    /\ pc = "done"
    /\ ~Reasoning
    /\ Len(frags) >= 2
    /\ \E k \in 1..Len(frags) : Contains(frags[k], OPEN)
    /\ \E k \in 1..Len(frags) : Contains(frags[k], CLOSE)

\* C8: streaming and non-streaming agree.  When the stream has ended, the
\* response channel's text is exactly the 'response' string generate_response
\* returns for the same backend output, blanks at the ends included.
C8_StreamEqualsGenerate ==
    pc = "done" =>
        Chars(ChannelText(out, "response"))
            = ExtractThinkingContent(Chars(RawStream)).response

\* C7: generate_response on a non-reasoning model returns thinking = None
\* and the backend's text unchanged as response, also when that text contains
\* <think>...</think>.
C7_NoExtractionForNonReasoning ==
    (g_pc = "done" /\ outcome.kind = "ok" /\ ~IsReasoningModel(model_id)) =>
        /\ outcome.thinking = None
        /\ outcome.response = g_raw

\* C9: pre-flight context check.  For a supported provider, once the check
\* has found the estimated token count above the context window, no
\* generate call has been dispatched and generate_response ends with
\* ContextLimitExceeded towards its caller.
C9_PreflightCheck ==
    (g_provider \in Supported /\ task = "raised") =>
        /\ genCalls = 0
        /\ (g_pc = "done" => outcome.kind = "ContextLimitExceeded")

\* C10: formatting for an unsupported provider fails with the
\* unsupported-provider error and leaves nothing behind: no task has been
\* started, no adapter call has been made since and the registry is as it
\* was before the call.
C10_NoSideEffects ==
    (g_provider \notin Supported /\ g_pc = "done") =>
        /\ g_snap.error = "ValueError: Unsupported provider"
        /\ task = "none"
        /\ genCalls = 0
        /\ metaCalls = g_snap.metaCalls
        /\ registry = g_snap.registry

\* The first character in upper case, the others as they are.
UpperFirst(s) == IF s = <<>> THEN <<>> ELSE <<UpperChar(Head(s))>> \o Tail(s)

\* The prompt of a conversation: a line per message, in order, then the cue.
Rendered(ms) ==
    Flatten([k \in 1..Len(ms) |->
                UpperFirst(ms[k].role) \o <<":", " ">> \o ms[k].content \o <<"\n">>])
    \o ASSISTANT_CUE

\* C11: prompt formatting.  For a supported provider the prompt returned is
\* the lines '<Role capitalized>: <content>' + newline of the messages, each
\* once and in the given order, followed by 'Assistant: '; a system prompt
\* that was given (a non-empty text) is rendered as the first line.
C11_FormatOrder ==
    (f_pc = "done" /\ f_request.provider \in Supported) =>
        f_result.text =
            Rendered((IF f_request.system \in {None, <<>>} THEN <<>>
                      ELSE <<[role |-> <<"s", "y", "s", "t", "e", "m">>,
                              content |-> f_request.system]>>)
                     \o f_request.messages)

\* C11's case: a prompt was built from a system prompt and two messages of
\* different roles and contents.
C11_Witness ==
    /\ f_pc = "done"
    /\ f_request.provider \in Supported
    /\ f_request.system \notin {None, <<>>}
    /\ Len(f_request.messages) = 2
    /\ f_request.messages[1].role # f_request.messages[2].role
    /\ f_request.messages[1].content # f_request.messages[2].content

\* C12: a request whose temperature is outside [0.0, 1.0] never reaches the
\* provider adapters, whichever route it came in by: every request for which
\* adapters were called has a temperature in the range.
C12_OutOfRangeRejected == \A c \in a_calls : ValidTemperature(c.temperature)

\* The frames of the n-th text received on the connection.
FramesOf(n) == SelectSeq(w_frames, LAMBDA f : f.req = n)

\* The server is through with the n-th text.
Served(n) == n < w_received \/ (n = w_received /\ w_pc # "streaming")

\* C13: WebSocket frame protocol.  With the client connected, the frames of
\* every text received are token frames followed, once the server is through
\* with it, by exactly one terminal frame (done or error), also when the
\* text is not valid JSON; nothing follows a terminal frame, and frames of
\* earlier texts come before frames of later ones.
C13_FrameProtocol ==
    (w_pc # "idle" /\ w_client = "connected") =>
        /\ \A n \in 1..w_received :
              LET fs == FramesOf(n)
              IN  /\ \A k \in 1..(Len(fs) - 1) : fs[k].kind = "token"
                  /\ Served(n) => (fs # <<>> /\ fs[Len(fs)].kind \in {"done", "error"})
        /\ \A a, b \in 1..Len(w_frames) : a < b => w_frames[a].req <= w_frames[b].req

\* C15: cancellation.  Once the server has observed that the client is gone
\* it pulls nothing more from the stream, writes no further frame, and the
\* generator is closed.
C15_Cancellation ==
    (w_pc # "idle" /\ w_obs.observed) =>
        /\ w_obs.pulls = 0
        /\ w_obs.writes = 0
        /\ w_gen \in {"none", "exhausted", "closed"}

\* C14: error outcomes of generate.  A known exception raised beneath the
\* call reaches the caller as it is, an unknown provider is reported as an
\* unsupported-provider error, any other exception reaches the caller as a
\* ModelServiceError whose details carry provider and model id, and a
\* ContextLimitExceededError raised by the context check is not swallowed.
C14_ErrorOutcomes ==
    g_pc = "done" =>
        /\ task = "raised" => outcome.kind = "ContextLimitExceededError"
        /\ outcome.kind # "ok" =>
              IF outcome.cause \in KnownErrors
              THEN outcome.kind = outcome.cause
              ELSE IF g_provider \notin Supported
              THEN outcome.kind = "UnsupportedProviderError"
              ELSE /\ outcome.kind = "ModelServiceError"
                   /\ outcome.details = <<g_provider, model_id>>

\* The family of a model id: the part before ':', the id itself without one.
FamilyOf(mid) == IF HasTag(mid) THEN ModelFamily(mid) ELSE mid

\* C16: context-window monotonicity.  After two registrations for model ids
\* of one family (and one provider), one with 8192 and one with 4096 in
\* either order, a lookup for a model id of that family returns 4096.
C16_SmallerWins ==
    ( /\ Len(r_log) = 2
      /\ r_result.at = 2
      /\ {r_log[1].n, r_log[2].n} = {4096, 8192}
      /\ FamilyOf(r_log[1].mid) = FamilyOf(r_log[2].mid)
      /\ FamilyOf(r_result.mid) = FamilyOf(r_log[1].mid)
      /\ r_log[1].provider = r_log[2].provider
      /\ r_result.provider = r_log[1].provider )
    => r_result.value = 4096

\* The context lengths registered so far for model ids of a family.
SeenFor(fam) == {r_log[k].n : k \in {j \in 1..Len(r_log) : FamilyOf(r_log[j].mid) = fam}}

\* C17: conservative family estimate.  After any registrations of positive
\* context lengths, the family-level entry of every family registered is at
\* most the smallest length registered for a model id of the family, and so
\* is the result of a lookup for an unseen tag of the family.
C17_FamilyMinimum ==
    (c_tasks = <<>> /\ \A k \in 1..Len(r_log) : r_log[k].n > 0) =>
        \A fam \in {FamilyOf(r_log[k].mid) : k \in 1..Len(r_log)} :
            /\ DictGet(registry, fam) <= MinOf(SeenFor(fam))
            /\ \A p \in Providers :
                  GetProviderContextWindow(registry, p, fam \o <<":", "c">>)
                      <= MinOf(SeenFor(fam))

\* The value of the first key of the list that the table has, else other.
RECURSIVE FirstHit(_, _, _)
FirstHit(table, keys, other) ==
    IF keys = <<>> THEN other
    ELSE IF Head(keys) \in DOMAIN table THEN table[Head(keys)]
    ELSE FirstHit(table, Tail(keys), other)

\* The lookup order: exact, bare-model and family dynamic entries, exact and
\* family static entries, the provider's default, the global default 4096.
LookupOrder(reg, p, mid) ==
    LET fam == FamilyOf(mid)
    IN  FirstHit(reg, <<FullId(p, mid), mid, fam, FullId(p, fam)>>,
            FirstHit(CONTEXT_WINDOWS,
                     <<FullId(p, mid), mid, fam, FullId(p, <<"default">>)>>, 4096))

C19_Positive == (r_result.at >= 0) => r_result.value > 0

\* The registry after the calls of a log, made one after the other.
RECURSIVE ApplyAll(_, _)
ApplyAll(reg, log) ==
    IF log = <<>> THEN reg
    ELSE ApplyAll(RegisterContextWindow(reg, Head(log).provider, Head(log).mid,
                                        Head(log).n), Tail(log))

\* The keys a registration may write.
KeysOf(r) ==
    {FullId(r.provider, r.mid), r.mid, FamilyOf(r.mid), FullId(r.provider, FamilyOf(r.mid))}

\* C20: registry safety under concurrency.  Whatever the interleaving of the
\* requests, the registry is the one that the registrations made so far give
\* when applied one after the other in the order of their calls (a serial
\* order, with the smaller-wins rule for the family entry), and every key
\* holds one of the values registered for it.
C20_Serializable ==
    (c_tasks # <<>>) =>
        /\ registry = ApplyAll(<<>>, r_log)
        /\ \A key \in DOMAIN registry :
              \E k \in 1..Len(r_log) :
                  key \in KeysOf(r_log[k]) /\ registry[key] = r_log[k].n

\* C20's case: all requests are through, two of them registered the same
\* model id with different values, and one of them registered after the
\* other had changed the registry while it was suspended.
C20_Witness ==
    /\ c_tasks # <<>>
    /\ \A t \in Tasks : c_tasks[t].pc = "done"
    /\ \E t \in Tasks : c_tasks[t].raced
    /\ \E a, b \in 1..Len(r_log) :
          r_log[a].mid = r_log[b].mid /\ r_log[a].n # r_log[b].n

\* The text of a model id before its first ':' or '-'; <<>> when it has none.
PrefixOf(mid) ==
    LET cuts == {k \in 1..Len(mid) : mid[k] \in {":", "-"}}
    IN  IF cuts = {} THEN <<>> ELSE SubSeq(mid, 1, MinOf(cuts) - 1)

\* The registry after a registration that writes the exact key, the bare
\* key and, when the model id has a separator and the value is smaller than
\* the family's (or the family has none), the family keys; nothing else.
RegisteredAs(reg, r) ==
    LET r1 == DictPut(DictPut(reg, FullId(r.provider, r.mid), r.n), r.mid, r.n)
        fam == PrefixOf(r.mid)
    IN  IF fam # <<>> /\ (fam \notin DOMAIN r1 \/ r.n < r1[fam])
        THEN DictPut(DictPut(r1, fam, r.n), FullId(r.provider, fam), r.n)
        ELSE r1

\* C21: the keys a registration writes.  Every register_context_window call
\* with a positive length, on a registry of positive lengths, writes the
\* exact key, the bare key and (smaller wins) the keys of the family prefix,
\* the text before ':' or '-', and leaves every other key as it was.
C21_KeysWritten ==
    [][(r_log' # r_log /\ \A k \in 1..Len(r_log') : r_log'[k].n > 0)
          => registry' = RegisteredAs(registry, r_log'[Len(r_log')])]_vars

\* The ids a live list reports.
LiveIds(models) == {models[k].id : k \in 1..Len(models)}

\* The entries of the combined list with a provider and an id.
EntriesOf(provider, id) ==
    {k \in 1..Len(m_all) : m_all[k].provider = provider /\ m_all[k].id = id}

C30_NoDuplicatesNoLosses ==
    m_pc = "done" =>
        /\ \A id \in LiveIds(m_live.ollama) :
              /\ Cardinality(EntriesOf("ollama", id)) = 1
              /\ \A e \in EntriesOf("ollama", id) : m_all[e].live
        /\ \A a, b \in 1..Len(m_all) :
              (m_all[a].provider = m_all[b].provider /\ m_all[a].id = m_all[b].id) => a = b

\* C30's case: lists were combined where the local provider reports a model
\* that is among the defaults and one that is not, and the hosted list is
\* not empty.
C30_Witness ==
    /\ m_pc = "done"
    /\ m_live.hf # <<>>
    /\ "llama3:latest" \in LiveIds(m_live.ollama)
    /\ "custom:7b" \in LiveIds(m_live.ollama)

\* C23: details of a model.  A provider other than the two supported ones
\* gets a 4xx, a model the provider does not know gets 404, and a descriptor
\* is returned only for a model the provider knows.
C23_DetailsErrors ==
    d_result.status # 0 =>
        /\ d_request.provider \notin Supported => d_result.status = 400
        /\ (d_request.provider \in Supported /\ ~d_request.known) => d_result.status = 404
        /\ d_result.status = 200 => d_request.known

\* The sum the estimate is said to be: for each message its content's token
\* count plus a fixed overhead of seven, plus ten when no message is a system
\* message.
RECURSIVE ContentSum(_, _)
ContentSum(messages, model) ==
    IF messages = <<>> THEN 0
    ELSE CountTokens(x_tok, messages[Len(messages)].content, model) + 7
         + ContentSum(SubSeq(messages, 1, Len(messages) - 1), model)

\* C24: estimate_messages_tokens.  Every call returns the sum over the
\* messages of content tokens plus the per-message overhead, plus the extra
\* overhead exactly when there is no system message; every call with the same
\* arguments returns the same, whatever was registered in between; and the
\* result is positive for a non-empty list.
C24_EstimateIsSum ==
    \A k \in 1..Len(x_results) :
        /\ x_request.messages # <<>> =>
              /\ x_results[k] =
                     ContentSum(x_request.messages,
                                IF x_request.provider = "huggingface" THEN <<"gpt2">>
                                ELSE model_id)
                     + (IF \A j \in 1..Len(x_request.messages) :
                              x_request.messages[j].role # SYSTEM
                        THEN 10 ELSE 0)
              /\ x_results[k] > 0
        /\ x_results[k] = x_results[1]

\* C24's case: two calls were made on a list that has a system message and a
\* content the tokenizer counts, and the registry changed since the process
\* started.
C24_Witness ==
    /\ Len(x_results) = 2
    /\ registry # <<>>
    /\ Len(x_request.messages) = 2
    /\ \E j \in 1..2 : x_request.messages[j].role = SYSTEM
    /\ \E j \in 1..2 : x_request.messages[j].content = A_B_C_D
    /\ "cl100k_base" \in x_tok

\* C25: count_tokens never raises.  Every call returns a count, and whenever
\* the tokenizer lookup or the encoding failed the count is the heuristic
\* max(1, len(text) / 4).
C25_NeverRaises ==
    x_count # NoCount =>
        /\ x_count.value >= 0
        /\ x_count.failed =>
              x_count.value = (IF Len(x_count.text) >= 8 THEN Len(x_count.text) \div 4 ELSE 1)

\* C25's case: a short text was counted when no encoding could be loaded.
C25_Witness ==
    /\ x_count.failed
    /\ x_count.text = HI
    /\ x_tok = {}

\* C27: usage warning threshold.  The analysis reports 'warning' exactly
\* when the token count is strictly above 80% of the context window and
\* 'ok' otherwise, and the orchestrator's check warns under the same
\* condition.
C27_WarningThreshold ==
    /\ x_analysis.status \in {"warning", "ok"} =>
          (x_analysis.status = "warning"
              <=> x_analysis.token_count * 100 > 80 * x_analysis.context_window)
    /\ x_check.outcome # "none" =>
          (x_check.outcome = "warned"
              <=> x_check.token_count * 100 > 80 * x_check.context_window)

\* C26: metadata failures degrade gracefully.  A step of the preload or of
\* the per-request update that registers nothing (the fetch raised or gave
\* no context length) never ends the request: the request goes on to the
\* next step, to formatting after the update, with the registry as it was;
\* it does not end there.
C26_MetadataFailuresTolerated ==
    [][(g_pc \in {"start", "update"} /\ g_pc' # g_pc /\ registry' = registry) =>
          g_pc' = (IF g_pc = "start" THEN "update" ELSE "format")]_vars

\* C26's case: a request of the local provider was dispatched and answered
\* although the preload did not finish and no fetch registered anything.
C26_Witness ==
    /\ g_provider = "ollama"
    /\ g_pc = "done"
    /\ outcome.kind = "ok"
    /\ metaCalls >= 2
    /\ ~initialized
    /\ registry = <<>>

\* C28: channel assignment follows the classifier state.  For a reasoning
\* model, a fragment that arrives while the classifier is outside a span and
\* opens none (it has no <think>) is yielded on the response channel only:
\* the text that precedes a </think> with no <think> open is response text.
C28_OutsideIsResponse ==
    [][(/\ Reasoning
        /\ ~in_thinking_mode
        /\ Len(frags') = Len(frags) + 1
        /\ ~Contains(frags'[Len(frags')], OPEN)) =>
          \A k \in (Len(out) + 1)..Len(out') : out'[k].type = "response"]_vars

\* The token frames written for the request being served.
TokenFramesOf(n) == SelectSeq(FramesOf(n), LAMBDA f : f.kind = "token")

\* The items of the current request's stream pulled so far, as the frames
\* that show them all: every item, or the response items only.
PulledFrames(types) ==
    LET n == Len(w_cur.plan) - Len(w_cur.todo)
        all == [k \in 1..n |-> TokenFrame(w_cur.req, w_cur.plan[k], k)]
    IN  SelectSeq(all, LAMBDA f : f.type \in types)

\* C29: hiding thinking content.  With show_thinking = false no frame of
\* type 'thinking' is sent on the WebSocket and POST /chat returns no
\* thinking; the response frames sent are the response items of the stream,
\* in order, and the response text is the one generate_response returned,
\* both as with show_thinking = true.
C29_ThinkingHidden ==
    /\ (w_gen # "none" /\ w_client = "connected") =>
          LET fs == TokenFramesOf(w_cur.req)
          IN  /\ SelectSeq(fs, LAMBDA f : f.type = "response") = PulledFrames({"response"})
              /\ ~w_cur.show_thinking => \A k \in 1..Len(fs) : fs[k].type # "thinking"
              /\ w_cur.show_thinking => fs = PulledFrames(TokenTypes)
    /\ p_result = "served" =>
          /\ p_chat.body.response = p_chat.data.response
          /\ ~p_chat.show_thinking => p_chat.body.thinking = None
          /\ p_chat.show_thinking => p_chat.body.thinking = p_chat.data.thinking

\* C29's case: a stream with a thinking item before a response item was
\* pulled to its end for a request with show_thinking = false, and a POST
\* request with show_thinking = false was served a result that has thinking
\* content.
C29_Witness ==
    /\ w_gen = "exhausted"
    /\ w_client = "connected"
    /\ ~w_cur.show_thinking
    /\ w_cur.plan = <<"thinking", "response">>
    /\ p_result = "served"
    /\ ~p_chat.show_thinking
    /\ p_chat.data.thinking # None

====
